---- MODULE Spec2Model ----
(***************************************************************************)
(* DriveGuard front end (src/src/App.js): the monitoring session           *)
(* controller of the App component.  The component's state hooks and refs  *)
(* are the variables; every event handler, promise continuation and timer  *)
(* callback is one action.  JavaScript runs each of them to completion on   *)
(* a single thread, so each is atomic; what interleaves are the events      *)
(* themselves (clicks, getUserMedia settling, interval ticks, HTTP          *)
(* completions, unmount).                                                   *)
(*                                                                          *)
(* A function component's handlers close over the state of the render that *)
(* created them.  The model re-renders with every state update, so a click  *)
(* handler sees the current state, while a callback handed to setInterval   *)
(* or resumed after an await keeps the values of the render it came from.   *)
(* Those captured values are carried in the pending-call and timer records. *)
(***************************************************************************)
EXTENDS Naturals, Sequences, FiniteSets

\* ---------------------------------------------------------------- bounds
\* Toggle-button clicks in one behaviour; click k names the call, the stream
\* and the timer it creates.
MaxClicks == 2
\* Scoring requests in flight at once.
MaxInFlight == 2
\* Slider / checkbox changes in one behaviour.
MaxChanges == 1

\* ------------------------------------------------------- program constants
\* Slider ranges, in the slider's own steps (hundredths for ear and mar,
\* degrees for tilt), and the initial thresholds of useState.
EarMin == 15
EarMax == 35
EarInit == 22
MarMin == 40
MarMax == 80
TiltMin == 10
TiltMax == 30
TiltInit == 15

\* Slider positions the model samples: the initial value and the upper end
\* of each range (for mar the initial value is the lower end).
EarValues == {EarInit, EarMax}
MarValues == {MarMin, MarMax}
TiltValues == {TiltInit, TiltMax}

InitThresholds ==
    [ear_threshold |-> EarInit, mar_threshold |-> MarMin, tilt_threshold |-> TiltInit]

\* null of a ref; stream and timer handles are 1, 2, ...
Null == 0

CameraDenied == "Camera access denied. Please allow camera permissions."

\* useState({}) : no status, alert undefined (falsy), no error.
EmptyInfo == [status |-> "", alert |-> FALSE, error |-> ""]

\* The object setAlertInfo receives in the catch of captureAndProcessFrame.
ErrorInfo == [status |-> "BACKEND ERROR", alert |-> FALSE, error |-> "Failed to process frame"]

\* Bodies the scoring service may answer with (response.data).
Responses ==
    { [status |-> "READY", alert |-> FALSE, error |-> ""],
      [status |-> "ALERT", alert |-> TRUE, error |-> ""] }

VARIABLES
    mounted,        \* the component is mounted (videoRef/canvasRef are non-null);
                    \* the seven hooks below hold Discarded once it is not
    isMonitoring,   \* useState(false)
    alertInfo,      \* useState({})
    thresholds,     \* useState({ear_threshold, mar_threshold, tilt_threshold})
    enableSound,    \* useState(true)
    cameraError,    \* useState('')
    backendStatus,  \* useState('checking')
    streamRef,      \* streamRef.current: Null or a stream handle
    intervalRef,    \* intervalRef.current: Null or a timer handle
    videoSrc,       \* videoRef.current.srcObject: Null or a stream handle
    liveStreams,    \* streams whose tracks have not been stopped
    timers,         \* active intervals, each with the closure it runs
    pending,        \* toggleMonitoring calls suspended in await startCamera()
    requests,       \* axios.post calls in flight, in issue order
    health,         \* "some" when axios.get /api/health calls are in flight, else "none"
    clicks,         \* toggle-button clicks so far
    changes,        \* slider / checkbox changes so far
    stopped,        \* stopCamera has run and no start toggle was clicked since
    lastPlays       \* playAlertSound calls made by the handler that ran last

vars ==
    << mounted, isMonitoring, alertInfo, thresholds, enableSound, cameraError,
       backendStatus, streamRef, intervalRef, videoSrc, liveStreams,
       timers, pending, requests, health, clicks, changes, stopped, lastPlays >>

\* What a state hook holds once the component is unmounted: nothing the
\* program can read or render.
Discarded == "discarded"

\* A state setter of an unmounted component changes nothing.
SetState(old, new) == IF mounted THEN new ELSE old

\* ------------------------------------------------------------------ Init
\* The state after the first render and its mount effects: the health check
\* of the mount effect is in flight.
Init ==
    /\ mounted = TRUE
    /\ isMonitoring = FALSE
    /\ alertInfo = EmptyInfo
    /\ thresholds = InitThresholds
    /\ enableSound = TRUE
    /\ cameraError = ""
    /\ backendStatus = "checking"
    /\ streamRef = Null
    /\ intervalRef = Null
    /\ videoSrc = Null
    /\ liveStreams = {}
    /\ timers = {}
    /\ pending = {}
    /\ requests = << >>
    /\ health = "some"
    /\ clicks = 0
    /\ changes = 0
    /\ stopped = FALSE
    /\ lastPlays = 0

\* ------------------------------------------------------- stopCamera
\* if (streamRef.current) track.stop() on every track of it: of the streams
\* `live`, the one `ref` names has no live track left.  Stopping a stopped
\* track does nothing, and Null names no stream.
StopTracks(live, ref) == live \ {ref}

\* A stopCamera without the two tests: with no stream held,
\* streamRef.current.getTracks() throws and clearInterval is never reached.
ClearIntervalUnlessThrown(ts, ref) ==
    IF streamRef = Null THEN ts ELSE { t \in ts : t.id # ref }

\* if (intervalRef.current) clearInterval(intervalRef.current): of the timers
\* `ts`, the one `ref` names is cancelled.  Clearing a cleared interval does
\* nothing, and Null names no timer.
ClearInterval(ts, ref) == { t \in ts : t.id # ref }

\* track.stop() on every track of streamRef.current, if there is one.
TracksAfterStop == StopTracks(liveStreams, streamRef)

\* clearInterval(intervalRef.current), if there is one.
TimersAfterStop == ClearInterval(timers, intervalRef)

\* What stopCamera works on, and what it leaves of it: the refs themselves
\* are not reset.
Held == [liveStreams |-> liveStreams, timers |-> timers, isMonitoring |-> isMonitoring]

AfterStopCamera(h) ==
    [ liveStreams |-> StopTracks(h.liveStreams, streamRef),
      timers |-> ClearInterval(h.timers, intervalRef),
      isMonitoring |-> SetState(h.isMonitoring, FALSE) ]

\* Requests still in flight when stopCamera runs are marked: their
\* completion arrives after a stop.  (axios.post is not aborted.)
MarkStopped(rs) ==
    [ i \in 1..Len(rs) |->
        IF rs[i].session = "live" THEN [ rs[i] EXCEPT !.session = "stopped" ] ELSE rs[i] ]

stopCamera ==
    /\ liveStreams' = TracksAfterStop
    /\ timers' = TimersAfterStop
    /\ isMonitoring' = SetState(isMonitoring, FALSE)
    /\ requests' = MarkStopped(requests)
    /\ stopped' = TRUE

\* ------------------------------------------------------- the toggle button
\* The button disabled only once a health check has failed, and clickable
\* while the first check is still out (disabled={backendStatus === 'offline'}).
ButtonDisabledWhenOffline == backendStatus = "offline"

\* The button disabled for starting only, so that a running session can
\* always be stopped (disabled={!isMonitoring && backendStatus !== 'online'}).
ButtonDisabledForStart == backendStatus # "online" /\ ~isMonitoring

\* disabled={backendStatus !== 'online'}
ButtonDisabled == backendStatus # "online"

\* The closure a start click hands on: captureAndProcessFrame of the render
\* the click happened in, with that render's thresholds and enableSound.
Closure(id) == [id |-> id, thresholds |-> thresholds, enableSound |-> enableSound]

\* onClick={toggleMonitoring} up to its first await (start) or to its end
\* (stop), as one of the first `limit` clicks.
ToggleUpTo(limit) ==
    /\ mounted
    /\ ~ButtonDisabled
    /\ clicks < limit
    /\ clicks' = clicks + 1
    /\ IF ~isMonitoring
       THEN /\ pending' = pending \cup {Closure(clicks + 1)}
            /\ stopped' = FALSE
            /\ UNCHANGED << isMonitoring, liveStreams, timers, requests >>
       ELSE /\ stopCamera
            /\ UNCHANGED pending
    /\ lastPlays' = 0
    /\ UNCHANGED << mounted, alertInfo, thresholds, enableSound, cameraError,
                    backendStatus, streamRef, intervalRef, videoSrc,
                    health, changes >>

ToggleClick == ToggleUpTo(MaxClicks)

\* ------------------------------------------------------- startCamera
\* The try block of startCamera runs through: getUserMedia resolved and
\* videoRef.current is there to take the stream.
TryRunsThrough(granted) == granted /\ mounted

\* getUserMedia settles for the call p (granted: it resolved with a stream),
\* startCamera finishes and toggleMonitoring resumes after its await, all in
\* one microtask checkpoint.
CameraSettles(p, granted) ==
    /\ pending' = pending \ {p}
    \* streamRef.current = stream
    /\ streamRef' = IF granted THEN p.id ELSE streamRef
    /\ liveStreams' = IF granted THEN liveStreams \cup {p.id} ELSE liveStreams
    \* videoRef.current.srcObject = stream (throws when videoRef.current is null)
    /\ videoSrc' = IF TryRunsThrough(granted) THEN p.id ELSE videoSrc
    \* setCameraError('') or, in the catch, setCameraError('Camera access denied...')
    /\ cameraError' = SetState(cameraError, IF TryRunsThrough(granted) THEN "" ELSE CameraDenied)
    \* back in toggleMonitoring: setIsMonitoring(true); setInterval(...)
    /\ isMonitoring' = SetState(isMonitoring, TRUE)
    /\ intervalRef' = p.id
    /\ timers' = timers \cup {p}
    /\ lastPlays' = 0
    /\ UNCHANGED << mounted, alertInfo, thresholds, enableSound, backendStatus,
                    requests, health, clicks, changes, stopped >>

\* ------------------------------------------------------- captureAndProcessFrame
\* What video.videoWidth > 0 && video.videoHeight > 0 can evaluate to when a
\* tick reads it: false until the element has the first frame of a stream,
\* so false for certain while no stream was ever bound to it.
VideoSizes == IF videoSrc = Null THEN {FALSE} ELSE BOOLEAN

\* A tick that skips its frame while an earlier request is unanswered.
FrameSentWhenIdle(sized) == mounted /\ sized /\ requests = << >>

\* A tick that does not test the video size: it sends whatever the canvas
\* holds.
FrameSentUnsized(sized) == mounted

\* The tick gets as far as axios.post: canvasRef.current is there (else
\* canvas.getContext throws and the call rejects) and the video reports a
\* size.
FrameSent(sized) == mounted /\ sized

\* The thresholds the tick of timer t puts in the body of its POST: those of
\* the closure the timer runs.
SentThresholds(t) == t.thresholds

\* The enableSound the completion of a request of timer t tests: that of the
\* closure the timer runs.
SoundSetting(t) == t.enableSound

\* A request in flight: the body of the POST, what its continuation closes
\* over, and the session it belongs to ("live": issued while isMonitoring,
\* no stopCamera since; "stopped": issued while isMonitoring, stopCamera has
\* run since; "stray": issued while isMonitoring was false).
Request(t) ==
    [ thresholds |-> SentThresholds(t),
      enableSound |-> SoundSetting(t),
      session |-> IF isMonitoring THEN "live" ELSE "stray" ]

\* The requests in flight once a tick of timer t has run up to its await:
\* with a frame to send, axios.post adds one to whatever is in flight.
RequestsAfterTick(t, sized) ==
    IF FrameSent(sized) THEN Append(requests, Request(t)) ELSE requests

\* The interval t fires: captureAndProcessFrame up to its await.  The code
\* puts no limit on the requests in flight; the model stops sending at
\* MaxInFlight.
Tick(t, sized) ==
    /\ FrameSent(sized) => Len(requests) < MaxInFlight
    /\ requests' = RequestsAfterTick(t, sized)
    /\ lastPlays' = 0
    /\ UNCHANGED << mounted, isMonitoring, alertInfo, thresholds, enableSound,
                    cameraError, backendStatus, streamRef, intervalRef, videoSrc,
                    liveStreams, timers, pending, health, clicks, changes, stopped >>

RemoveAt(s, i) == SubSeq(s, 1, i - 1) \o SubSeq(s, i + 1, Len(s))

\* if (response.data.alert && enableSound) playAlertSound();
Plays(r, data) == IF data.alert /\ r.enableSound THEN 1 ELSE 0

\* A completion handler that takes a response as the sign of a running
\* session: it also calls setIsMonitoring(true).
ScoreResolvesResumes(i, data) ==
    /\ requests' = RemoveAt(requests, i)
    /\ alertInfo' = SetState(alertInfo, data)
    /\ isMonitoring' = SetState(isMonitoring, TRUE)
    /\ lastPlays' = Plays(requests[i], data)
    /\ UNCHANGED << mounted, thresholds, enableSound, cameraError,
                    backendStatus, streamRef, intervalRef, videoSrc,
                    liveStreams, timers, pending, health, clicks, changes, stopped >>

\* A completion handler that applies responses in issue order only: the
\* response of a request that overtook an older one still in flight is
\* dropped.
ScoreResolvesInOrder(i, data) ==
    /\ requests' = RemoveAt(requests, i)
    /\ alertInfo' = IF i = 1 THEN SetState(alertInfo, data) ELSE alertInfo
    /\ lastPlays' = Plays(requests[i], data)
    /\ UNCHANGED << mounted, isMonitoring, thresholds, enableSound, cameraError,
                    backendStatus, streamRef, intervalRef, videoSrc,
                    liveStreams, timers, pending, health, clicks, changes, stopped >>

\* The POST of request i resolves with the body data.
ScoreResolves(i, data) ==
    /\ requests' = RemoveAt(requests, i)
    /\ alertInfo' = SetState(alertInfo, data)
    /\ lastPlays' = Plays(requests[i], data)
    /\ UNCHANGED << mounted, isMonitoring, thresholds, enableSound, cameraError,
                    backendStatus, streamRef, intervalRef, videoSrc,
                    liveStreams, timers, pending, health, clicks, changes, stopped >>

\* A completion handler whose catch only logs: a failed call leaves alertInfo
\* with the value it had.
ScoreRejectsSilently(i) ==
    /\ requests' = RemoveAt(requests, i)
    /\ lastPlays' = 0
    /\ UNCHANGED << mounted, isMonitoring, alertInfo, thresholds, enableSound,
                    cameraError, backendStatus, streamRef, intervalRef, videoSrc,
                    liveStreams, timers, pending, health, clicks, changes, stopped >>

\* A completion handler that gives the session up when the POST rejects: the
\* catch also runs stopCamera().
ScoreRejectsAndStops(i) ==
    /\ requests' = MarkStopped(RemoveAt(requests, i))
    /\ alertInfo' = SetState(alertInfo, ErrorInfo)
    /\ liveStreams' = TracksAfterStop
    /\ timers' = TimersAfterStop
    /\ isMonitoring' = SetState(isMonitoring, FALSE)
    /\ stopped' = TRUE
    /\ lastPlays' = 0
    /\ UNCHANGED << mounted, thresholds, enableSound, cameraError, backendStatus,
                    streamRef, intervalRef, videoSrc, pending, health, clicks,
                    changes >>

\* The POST of request i rejects.
ScoreRejects(i) ==
    /\ requests' = RemoveAt(requests, i)
    /\ alertInfo' = SetState(alertInfo, ErrorInfo)
    /\ lastPlays' = 0
    /\ UNCHANGED << mounted, isMonitoring, thresholds, enableSound, cameraError,
                    backendStatus, streamRef, intervalRef, videoSrc,
                    liveStreams, timers, pending, health, clicks, changes, stopped >>

\* ------------------------------------------------------- checkBackendHealth
\* onClick={checkBackendHealth} of the Re-check Backend button.  Any number
\* of checks can be in flight; their completions are alike, so the model
\* keeps only whether there is one.
RecheckClick ==
    /\ mounted
    /\ health' = "some"
    /\ lastPlays' = 0
    /\ UNCHANGED << mounted, isMonitoring, alertInfo, thresholds, enableSound,
                    cameraError, backendStatus, streamRef, intervalRef, videoSrc,
                    liveStreams, timers, pending, requests, clicks, changes, stopped >>

\* A health check that ends the session when it finds the backend offline:
\* the catch of checkBackendHealth also runs stopCamera().
HealthSettlesStopsOffline(ok) ==
    /\ health = "some"
    /\ health' \in {"some", "none"}
    /\ backendStatus' = SetState(backendStatus, IF ok THEN "online" ELSE "offline")
    /\ IF ok
       THEN UNCHANGED << isMonitoring, liveStreams, timers, requests, stopped >>
       ELSE stopCamera
    /\ lastPlays' = 0
    /\ UNCHANGED << mounted, alertInfo, thresholds, enableSound, cameraError,
                    streamRef, intervalRef, videoSrc, pending, clicks, changes >>

\* A GET /api/health settles: setBackendStatus('online' | 'offline').  Other
\* checks may remain in flight.
HealthSettles(ok) ==
    /\ health = "some"
    /\ health' \in {"some", "none"}
    /\ backendStatus' = SetState(backendStatus, IF ok THEN "online" ELSE "offline")
    /\ lastPlays' = 0
    /\ UNCHANGED << mounted, isMonitoring, alertInfo, thresholds, enableSound,
                    cameraError, streamRef, intervalRef, videoSrc,
                    liveStreams, timers, pending, requests, clicks, changes, stopped >>

\* ------------------------------------------------------- settings
\* onChange of a threshold slider: setThresholds({...thresholds, field: v}).
SetThreshold(field, v) ==
    /\ mounted
    /\ changes < MaxChanges
    /\ changes' = changes + 1
    /\ v # thresholds[field]
    /\ thresholds' = [thresholds EXCEPT ![field] = v]
    /\ lastPlays' = 0
    /\ UNCHANGED << mounted, isMonitoring, alertInfo, enableSound, cameraError,
                    backendStatus, streamRef, intervalRef, videoSrc,
                    liveStreams, timers, pending, requests, health, clicks, stopped >>

\* onChange of the checkbox: setEnableSound(e.target.checked).
SetEnableSound ==
    /\ mounted
    /\ changes < MaxChanges
    /\ changes' = changes + 1
    /\ enableSound' = ~enableSound
    /\ lastPlays' = 0
    /\ UNCHANGED << mounted, isMonitoring, alertInfo, thresholds, cameraError,
                    backendStatus, streamRef, intervalRef, videoSrc,
                    liveStreams, timers, pending, requests, health, clicks, stopped >>

\* ------------------------------------------------------- unmount
\* The component unmounts: React clears the element refs (videoRef.current
\* and canvasRef.current become null), runs the cleanup of the second effect,
\* stopCamera(), and drops the component with the state of its hooks (the
\* setIsMonitoring(false) of that stopCamera goes with it).  The refs made by
\* useRef(null) live on in the closures that hold them.
Unmount ==
    /\ mounted
    /\ mounted' = FALSE
    /\ liveStreams' = TracksAfterStop
    /\ timers' = TimersAfterStop
    /\ requests' = MarkStopped(requests)
    /\ stopped' = TRUE
    /\ lastPlays' = 0
    /\ isMonitoring' = Discarded
    /\ alertInfo' = Discarded
    /\ thresholds' = Discarded
    /\ enableSound' = Discarded
    /\ cameraError' = Discarded
    /\ backendStatus' = Discarded
    /\ videoSrc' = Null
    /\ UNCHANGED << streamRef, intervalRef, pending, health, clicks, changes >>

Next ==
    \/ ToggleClick
    \/ \E p \in pending : \E granted \in BOOLEAN : CameraSettles(p, granted)
    \/ \E t \in timers : \E sized \in VideoSizes : Tick(t, sized)
    \/ \E i \in 1..Len(requests) : \E data \in Responses : ScoreResolves(i, data)
    \/ \E i \in 1..Len(requests) : ScoreRejects(i)
    \/ RecheckClick
    \/ \E ok \in BOOLEAN : HealthSettles(ok)
    \/ \E v \in EarValues : SetThreshold("ear_threshold", v)
    \/ \E v \in MarValues : SetThreshold("mar_threshold", v)
    \/ \E v \in TiltValues : SetThreshold("tilt_threshold", v)
    \/ SetEnableSound
    \/ Unmount

Spec == Init /\ [][Next]_vars

\* The same program with one more click on the toggle button, enough for a
\* session to be stopped after a second start was clicked.
LongNext ==
    \/ ToggleUpTo(MaxClicks + 1)
    \/ Next

LongSpec == Init /\ [][LongNext]_vars

\* ================================================================ claims

\* A toggleMonitoring call started from the idle state is the only one
\* suspended: nothing is monitored, no timer runs, no other call is pending.
StartedFromIdle(p) == mounted /\ ~isMonitoring /\ timers = {} /\ pending = {p}

\* C1: in every reachable state at most one sampling timer is active and at
\* most one camera stream has live tracks.
C1_AtMostOneTimerAndStream ==
    /\ Cardinality(timers) <= 1
    /\ Cardinality(liveStreams) <= 1

\* C2: when toggleMonitoring was invoked from the idle state and the camera
\* acquisition fails, isMonitoring is not set to true and no timer is started.
C2_FailedAcquisitionStaysIdle ==
    [][ \A p \in pending :
            (StartedFromIdle(p) /\ CameraSettles(p, FALSE))
                => (isMonitoring' = FALSE /\ timers' = {}) ]_vars

\* C3: an acquisition that fails inside startCamera leaves a non-empty
\* cameraError (in the mounted component) and stores no stream handle in
\* streamRef or on the video element; a successful one sets cameraError to ''.
C3_NoHalfInitializedStream ==
    [][ \A p \in pending : \A granted \in BOOLEAN :
            CameraSettles(p, granted)
                => IF TryRunsThrough(granted)
                   THEN cameraError' = ""
                   ELSE /\ mounted => cameraError' # ""
                        /\ streamRef' = streamRef
                        /\ videoSrc' = videoSrc ]_vars

\* C4: a scoring call issued while monitoring that completes (resolves or
\* rejects) after stopCamera has run leaves alertInfo as it was.
C4_LateResponseDiscarded ==
    [][ \A i \in 1..Len(requests) :
            ( /\ requests[i].session = "stopped"
              /\ \/ ScoreRejects(i)
                 \/ \E data \in Responses : ScoreResolves(i, data) )
                => alertInfo' = alertInfo ]_vars

\* C5: after the unmount cleanup and all pending continuations have run, no
\* sampling timer is active and no camera stream has live tracks.
C5_UnmountReleasesEverything ==
    (~mounted /\ pending = {}) => (timers = {} /\ liveStreams = {})

\* C6: once two toggle clicks (the first one a start) have run to completion,
\* whatever the timing of the second, no timer is active and no stream has
\* live tracks.
C6_TwoTogglesLeaveNothing ==
    (mounted /\ clicks = 2 /\ pending = {}) => (timers = {} /\ liveStreams = {})

\* C7: after stopCamera has run and before the next start toggle no timer is
\* left to fire captureAndProcessFrame.
C7_NoTickAfterStop == stopped => timers = {}

\* C8 as stated: in the mounted component isMonitoring turns true, a camera
\* acquisition begins or a timer starts only in states where backendStatus
\* is 'online'.
C8_StartOnlyWhileOnline ==
    [][ ( /\ mounted'
          /\ \/ ~isMonitoring /\ isMonitoring'
             \/ ~(pending' \subseteq pending)
             \/ ~(timers' \subseteq timers) )
            => backendStatus = "online" ]_vars

\* C8 as amended: in the mounted component a camera acquisition via toggleMonitoring begins only in
\* states where backendStatus is 'online', and isMonitoring turns true or a
\* timer starts only in states where backendStatus is not 'checking' (the
\* continuation of a start begun while online also runs after a re-check has
\* set backendStatus to 'offline').
C8_StartClickOnlyWhileOnline ==
    [][ mounted' =>
          /\ ~(pending' \subseteq pending) => backendStatus = "online"
          /\ ( \/ ~isMonitoring /\ isMonitoring'
               \/ ~(timers' \subseteq timers) ) => backendStatus # "checking" ]_vars

\* A start begun while the backend was online is still waiting for the camera
\* when a re-check has reported the backend offline.
C8_Witness == mounted /\ pending # {} /\ backendStatus = "offline"

\* C9: a successful scoring response applied to the state triggers exactly one playback attempt if
\* it has alert = true and sound alerts are enabled when it is handled, and
\* none otherwise.
C9_PlaybackFollowsSetting ==
    [][ \A i \in 1..Len(requests) : \A data \in Responses :
            (mounted /\ ScoreResolves(i, data))
                => lastPlays' = IF data.alert /\ enableSound THEN 1 ELSE 0 ]_vars

\* C10: every request a tick issues carries the thresholds the client holds
\* when the request is issued.
C10_SampleCarriesCurrentThresholds ==
    [][ Len(requests') > Len(requests)
            => requests'[Len(requests')].thresholds = thresholds ]_vars

\* A scoring call completes in this step: only the continuations of
\* axios.post take a request out of flight.
Completes == Len(requests') < Len(requests)

\* C11: a scoring call that fails while isMonitoring is true (its completion
\* leaves the synthetic error value in alertInfo) does not stop the sampling
\* loop: isMonitoring stays true, the timers that were active stay active
\* (there is one, so the next tick fires), intervalRef still names the same
\* timer and no stream is stopped.
C11_FailureKeepsSampling ==
    [][ (mounted /\ Completes /\ alertInfo' = ErrorInfo /\ isMonitoring)
            => /\ isMonitoring'
               /\ timers' = timers
               /\ timers' # {}
               /\ intervalRef' = intervalRef
               /\ liveStreams' = liveStreams ]_vars

\* A session in which a scoring call has failed: the error value is shown,
\* no stopCamera has run, and the session is still monitoring with its timer.
C11_Witness ==
    /\ mounted
    /\ isMonitoring
    /\ ~stopped
    /\ alertInfo = ErrorInfo
    /\ timers # {}

\* C12: a health check changes backendStatus only: every step of the mounted
\* component that changes backendStatus or the health checks in flight (a
\* check starts, the last one completes) leaves isMonitoring, the timers, the
\* camera stream, alertInfo and cameraError as they were.
C12_HealthCheckOnlySetsStatus ==
    [][ (mounted' /\ (backendStatus' # backendStatus \/ health' # health))
            => UNCHANGED << isMonitoring, timers, intervalRef, liveStreams,
                            streamRef, alertInfo, cameraError >> ]_vars

\* A running session (timer active, stream live) with the last health check
\* completed and reporting the backend offline.
C12_Witness ==
    /\ mounted
    /\ isMonitoring
    /\ backendStatus = "offline"
    /\ health = "none"
    /\ timers # {}
    /\ streamRef \in liveStreams

\* C13: in every reachable state of the mounted component a sampling timer
\* is active if and only if isMonitoring is true.
C13_TimerIffMonitoring ==
    mounted => (isMonitoring <=> timers # {})

\* C14: completions are applied in the order they arrive, whatever the order
\* the requests were issued in: the completion of any request in flight, the
\* oldest or not, leaves its own outcome in alertInfo (the response body when
\* it resolves, the synthetic error value when it rejects), so after all
\* completions alertInfo holds the outcome that arrived last.
C14_LastArrivalWins ==
    [][ (mounted /\ Completes)
            => \A i \in 1..Len(requests) :
                /\ \A data \in Responses :
                      alertInfo' = data \/ ~ScoreResolves(i, data)
                /\ alertInfo' = ErrorInfo \/ ~ScoreRejects(i) ]_vars

\* A response carrying an alert has just been applied (its playback was the
\* last thing to happen) while another request is still in flight, whose
\* completion will arrive later.
C14_Witness ==
    /\ mounted
    /\ lastPlays = 1
    /\ alertInfo.alert
    /\ Len(requests) >= 1

\* C15: a scoring call that fails in the mounted component sets alertInfo to
\* {status: 'BACKEND ERROR', error: 'Failed to process frame'}, a value whose
\* alert is not true, triggers no playback, and leaves isMonitoring, the
\* timers and the camera stream exactly as they were.
C15_FailureShowsErrorOnly ==
    [][ (mounted /\ Completes)
            => \A i \in 1..Len(requests) :
                ScoreRejects(i)
                    => /\ alertInfo'.status = "BACKEND ERROR"
                       /\ alertInfo'.error = "Failed to process frame"
                       /\ ~alertInfo'.alert
                       /\ lastPlays' = 0
                       /\ UNCHANGED << isMonitoring, timers, intervalRef,
                                       liveStreams, streamRef >> ]_vars

\* The error value of a failed call is shown, its handler played nothing and
\* no request is left in flight; the session is still monitoring with its
\* stream live.
C15_Witness ==
    /\ mounted
    /\ alertInfo.status = "BACKEND ERROR"
    /\ lastPlays = 0
    /\ isMonitoring
    /\ streamRef \in liveStreams
    /\ requests = << >>

\* C16: a tick that finds the video reporting zero width or height is a
\* no-op.  In no reachable state can such a tick of an active timer issue a
\* request, trigger a playback or change alertInfo, isMonitoring, the timers
\* (the one that fired stays active) or the camera stream.
C16_ZeroSizeTickIsNoOp ==
    \A t \in timers :
        ~ENABLED ( /\ Tick(t, FALSE)
                   /\ ~ ( /\ requests' = requests
                          /\ lastPlays' = 0
                          /\ alertInfo' = alertInfo
                          /\ isMonitoring' = isMonitoring
                          /\ timers' = timers
                          /\ liveStreams' = liveStreams
                          /\ streamRef' = streamRef ) )

\* A session whose camera acquisition was denied: the timer runs, the video
\* element never got a stream, so every tick reads a zero size, and however
\* many have fired nothing was sent and nothing is shown.
C16_Witness ==
    /\ mounted
    /\ isMonitoring
    /\ timers # {}
    /\ videoSrc = Null
    /\ requests = << >>
    /\ alertInfo = EmptyInfo

\* C17: stopCamera is idempotent.  From every reachable state a second call
\* right after the first changes nothing more; the first leaves the stream
\* streamRef names without live tracks, the timer intervalRef names
\* cancelled and, in the mounted component, isMonitoring false; and with no
\* stream and no timer held and isMonitoring false it changes nothing.
C17_StopCameraIdempotent ==
    LET once == AfterStopCamera(Held)
    IN  /\ AfterStopCamera(once) = once
        /\ streamRef \notin once.liveStreams
        /\ \A t \in once.timers : t.id # intervalRef
        /\ mounted => once.isMonitoring = FALSE
        /\ (mounted /\ streamRef = Null /\ intervalRef = Null /\ ~isMonitoring)
              => once = Held

\* stopCamera has run on a session: the refs still name the stream it
\* stopped and the timer it cleared, which a second call would work on.
C17_Witness ==
    /\ mounted
    /\ stopped
    /\ ~isMonitoring
    /\ streamRef # Null
    /\ intervalRef # Null
    /\ streamRef \notin liveStreams
    /\ timers = {}

\* C18: ticks are fire-and-forget.  In every reachable state of a monitoring
\* session whose video has a stream, a tick of any active timer that finds
\* the video ready leaves in flight the requests that were there plus one,
\* its own, however many were there.  (The code has no cap on them; the
\* model explores up to MaxInFlight.)
C18_TickAlwaysSends ==
    (mounted /\ isMonitoring /\ videoSrc # Null)
        => \A t \in timers :
            /\ Len(RequestsAfterTick(t, TRUE)) = Len(requests) + 1
            /\ RequestsAfterTick(t, TRUE) = Append(requests, Request(t))

\* Two ticks have sent their frames and no answer has arrived yet: the second
\* was issued while the first was unanswered.
C18_Witness ==
    /\ mounted
    /\ isMonitoring
    /\ Len(requests) >= 2
    /\ alertInfo = EmptyInfo

\* C19: the completion of a scoring call, resolved or rejected, during a
\* session, after stopCamera or after unmount, changes none of isMonitoring,
\* cameraError, backendStatus, the timers and the camera stream; a late
\* response in particular does not turn isMonitoring back to true.
C19_CompletionKeepsSession ==
    [][ Completes
            => UNCHANGED << isMonitoring, cameraError, backendStatus, timers,
                            intervalRef, liveStreams, streamRef >> ]_vars

\* A response with an alert was handled after stopCamera had run (its
\* playback was the last thing to happen), and isMonitoring is still false
\* with no timer active.
C19_Witness ==
    /\ mounted
    /\ stopped
    /\ lastPlays = 1
    /\ ~isMonitoring
    /\ timers = {}

\* C20: the toggle is gated on backendStatus for stopping too: from a state
\* of the mounted component in which isMonitoring is true and backendStatus
\* is not 'online', every step other than the unmount leaves isMonitoring
\* true, every active timer active and every live stream live.
C20_NoStopWhileNotOnline ==
    [][ (mounted /\ mounted' /\ isMonitoring /\ backendStatus # "online")
            => /\ isMonitoring'
               /\ timers \subseteq timers'
               /\ liveStreams \subseteq liveStreams' ]_vars

\* A running session after a re-check has reported the backend offline, with
\* a click on the toggle still to come, which the disabled button refuses.
C20_Witness ==
    /\ mounted
    /\ isMonitoring
    /\ backendStatus # "online"
    /\ clicks < MaxClicks
    /\ timers # {}
    /\ liveStreams # {}

====
